---- MODULE Spec2Model ----
(***************************************************************************)
(* Ranked voting (lab04-comp-social-choice): ballots, the head-to-head     *)
(* matrix, the Schulze beatpath closure, the three unimplemented rules and *)
(* the tactical-voting simulation.                                         *)
(*                                                                         *)
(* A candidate is a string, a Ballot is its ranking (Ballot.__eq__ and     *)
(* __hash__ are by ranking), a Python list or tuple is a sequence, and a   *)
(* dict keyed by (cand_a, cand_b) is a function on ordered pairs.          *)
(*                                                                         *)
(* Spec          one election: ballots are cast, then one rule is called;  *)
(*               schulze runs one intermediate candidate K per step.       *)
(* SpecTactical  one call of simulate_election_with_modified_ballots on a  *)
(*               three-candidate election.                                 *)
(***************************************************************************)
EXTENDS Naturals, Sequences, FiniteSets

VARIABLES
    candidates,      \* the candidate list handed to every rule
    ballots,         \* the caller's ballot collection (list of Ballot)
    pc,              \* "collecting", "closure", "returned", "raised", "simulated"
    called,          \* the function the caller invoked ("none" before any call)
    outcome,         \* "none", "ok", "NotImplementedError" or "ValueError"
    h2h,             \* schulze: local h2h
    p,               \* schulze: local p, the beatpath strengths
    k,               \* schulze: index in candidates of the next cand_k
    scores,          \* schulze: returned scores dict
    winners,         \* schulze: returned winner list
    voter_type,      \* simulate: argument voter_type
    new_ranking,     \* simulate: argument new_ranking
    voting_system,   \* simulate: argument voting_system (by name)
    rule_calls,      \* simulate: the ballot lists handed to voting_system, in order
    sim_result,      \* simulate: what the call returned or raised
    rule_result,     \* what a directly called rule returned or raised
    opportunities,   \* find_tactical_opportunities: what the call returned or raised
    voter_types,     \* aggregate_ballot_types: the returned dict
    ranking_arg,     \* Ballot(ranking): the argument
    built_ballot,    \* the Ballot constructed, or None
    query,           \* prefers(cand_a, cand_b): the arguments, as a pair
    answer,          \* what prefers returned, or the exception raised
    true_ranking,    \* is_better_outcome: argument true_ranking
    original_winners,\* is_better_outcome: argument original_winners
    new_winners,     \* is_better_outcome: argument new_winners
    better,          \* is_better_outcome: the value returned, or the exception
    driver,          \* the analysis driver running ("none" before)
    step,            \* driver: index of the next call of its fixed order
    vt,              \* driver: index of the next voter type of the inner loop
    invoked,         \* driver: the functions it has called, in order
    raising,         \* driver: the rules that are still unimplemented stubs
    spectrum,        \* generate_single_peaked_ballots: the spectrum used
    pending,         \* closure pass: the (cand_i, cand_j) updates not yet done
    pass_start,      \* closure pass: p when the pass for cand_k began
    N,               \* simulate_greedy_algorithm: number of actions
    losses,          \* simulate_greedy_algorithm: the loss rows read so far
    greedy_actions,  \* simulate_greedy_algorithm: greedy_actions
    cumulative_losses, \* simulate_greedy_algorithm: rows 0..t of cumulative_losses
    greedy_cumulative  \* simulate_greedy_algorithm: entries 0..t of greedy_cumulative

vars == <<candidates, ballots, pc, called, outcome, h2h, p, k, scores, winners,
          voter_type, new_ranking, voting_system, rule_calls, sim_result,
          rule_result, opportunities, voter_types,
          ranking_arg, built_ballot, query, answer,
          true_ranking, original_winners, new_winners, better,
          driver, step, vt, invoked, raising,
          spectrum, pending, pass_start,
          N, losses, greedy_actions, cumulative_losses, greedy_cumulative>>

schulzeVars == <<h2h, p, k, scores, winners>>
simVars == <<voter_type, new_ranking, voting_system, rule_calls, sim_result>>
ballotVars == <<ranking_arg, built_ballot, query, answer>>
judgeVars == <<true_ranking, original_winners, new_winners, better>>
driverVars == <<driver, step, vt, invoked, raising>>
passVars == <<pending, pass_start>>
greedyVars == <<N, losses, greedy_actions, cumulative_losses, greedy_cumulative>>

\* ------------------------------------------------------------------ bounds
\* Longest ballot list of an election of Spec.
MaxBallots == 3
\* Longest ballot list of an election of SpecTactical.
MaxSimBallots == 3

\* Longest ballot list of an election of SpecDrivers.
MaxDriverBallots == 3

\* Longest ballot list of an election of SpecPass.
MaxPassBallots == 1

\* Largest number of actions, and of loss rows, in SpecGreedy.
MaxActions == 3
MaxSteps == 3

\* Largest num_voters of generate_single_peaked_ballots in SpecPeaked.
MaxPeakedVoters == 3

\* Longest list handed to the Ballot constructor in SpecBallot.
MaxRankingLen == 3

\* The candidate names of the model, in string order.
CandidateNames == <<"A", "B", "C", "D">>
\* The candidate list of the tactical-voting tests.
SimCandidates == <<"A", "B", "C">>

None == "None"
NoDict == << >>

\* ----------------------------------------------------------- list helpers
Range(s) == {s[i] : i \in DOMAIN s}

Min(a, b) == IF a < b THEN a ELSE b
Max(a, b) == IF a > b THEN a ELSE b

\* tuple.index(c): 0-based position of the first occurrence
Index(ranking, c) ==
    (CHOOSE i \in DOMAIN ranking :
        ranking[i] = c /\ \A j \in 1..(i - 1) : ranking[j] # c) - 1

\* All orderings of a finite set, as sequences.
Orderings(S) ==
    {f \in [1..Cardinality(S) -> S] : \A i, j \in DOMAIN f : i # j => f[i] # f[j]}

\* ------------------------------------------------------------------ Ballot
\* Mutant of BallotRaises: the duplicate check is missing.
BallotRaisesOnEmptyOnly(ranking) == Len(ranking) = 0

\* Ballot.__init__ raises ValueError on an empty ranking or a duplicate.
BallotRaises(ranking) ==
    \/ Len(ranking) = 0
    \/ Len(ranking) # Cardinality(Range(ranking))

\* Ballot(ranking).ranking == tuple(ranking)
Ballot(ranking) == [i \in 1..Len(ranking) |-> ranking[i]]

\* Ballot.prefers raises ValueError when a candidate is not on the ballot.
PrefersRaises(ballot, cand_a, cand_b) ==
    cand_a \notin Range(ballot) \/ cand_b \notin Range(ballot)

\* Mutant of Prefers: the positions are compared with <=.
PrefersOrSame(ballot, cand_a, cand_b) == Index(ballot, cand_a) <= Index(ballot, cand_b)

Prefers(ballot, cand_a, cand_b) == Index(ballot, cand_a) < Index(ballot, cand_b)

\* a call of Ballot.prefers: what it raises or returns
PrefersCall(ballot, cand_a, cand_b) ==
    IF PrefersRaises(ballot, cand_a, cand_b)
    THEN [status |-> "ValueError", value |-> None]
    ELSE [status |-> "ok", value |-> Prefers(ballot, cand_a, cand_b)]

\* Ballot.get_ranking: list(self.ranking)
GetRanking(ballot) == [i \in 1..Len(ballot) |-> ballot[i]]

\* --------------------------------------------------- get_head_to_head_matrix
\* the keys of h2h and p: ordered pairs of distinct candidates
Pairs(cands) == {pr \in Range(cands) \X Range(cands) : pr[1] # pr[2]}

\* Mutant of CountPrefers: the loop starts at the second ballot (ballots[1:]).
RECURSIVE CountPrefersSkipFirst(_, _, _, _)
CountPrefersSkipFirst(bs, n, cand_a, cand_b) ==
    IF n <= 1 THEN 0
    ELSE CountPrefersSkipFirst(bs, n - 1, cand_a, cand_b)
         + (IF Prefers(bs[n], cand_a, cand_b) THEN 1 ELSE 0)

\* the inner loop: count += 1 for each of the first n ballots preferring a to b
RECURSIVE CountPrefers(_, _, _, _)
CountPrefers(bs, n, cand_a, cand_b) ==
    IF n = 0 THEN 0
    ELSE CountPrefers(bs, n - 1, cand_a, cand_b)
         + (IF Prefers(bs[n], cand_a, cand_b) THEN 1 ELSE 0)

HeadToHeadRaises(bs, cands) ==
    \E pr \in Pairs(cands) : \E i \in DOMAIN bs : PrefersRaises(bs[i], pr[1], pr[2])

HeadToHead(bs, cands) ==
    [pr \in Pairs(cands) |-> CountPrefers(bs, Len(bs), pr[1], pr[2])]

\* ------------------------------------------------------------------ schulze
\* Mutant of InitStrength: every count is a direct strength, also a losing one.
InitStrengthAllCounts(h, cands) == [pr \in Pairs(cands) |-> h[pr]]

\* direct defeat strength
InitStrength(h, cands) ==
    [pr \in Pairs(cands) |->
        IF h[pr] > h[<<pr[2], pr[1]>>] THEN h[pr] ELSE 0]

\* Mutant of PathStrength: the stronger of the two links instead of the weaker.
PathStrengthMax(q, cand_i, cand_k, cand_j) ==
    Max(q[<<cand_i, cand_k>>], q[<<cand_k, cand_j>>])

\* path_strength = min(p[(cand_i, cand_k)], p[(cand_k, cand_j)])
PathStrength(q, cand_i, cand_k, cand_j) ==
    Min(q[<<cand_i, cand_k>>], q[<<cand_k, cand_j>>])

\* Mutant of Update: the new path's strength overwrites the entry.
UpdateOverwrite(current, path_strength) == path_strength

\* p[(cand_i, cand_j)] = max(p[(cand_i, cand_j)], path_strength)
Update(current, path_strength) == Max(current, path_strength)

\* Mutant of RelaxOne: the result is stored at (cand_i, cand_k), an entry
\* the updates of the same pass read.
RelaxOneWritesLink(q, cand_i, cand_k, cand_j) ==
    [q EXCEPT ![<<cand_i, cand_k>>] =
        Update(q[<<cand_i, cand_j>>], PathStrength(q, cand_i, cand_k, cand_j))]

\* lines 190-194, the body of the loops for one (cand_i, cand_j)
RelaxOne(q, cand_i, cand_k, cand_j) ==
    [q EXCEPT ![<<cand_i, cand_j>>] =
        Update(@, PathStrength(q, cand_i, cand_k, cand_j))]

\* The two inner loops for one cand_k, from the m-th (cand_i, cand_j)
\* combination on, in the loops' order, updating p in place.
RECURSIVE RelaxFrom(_, _, _, _)
RelaxFrom(q, cands, cand_k, m) ==
    LET n == Len(cands) IN
    IF m >= n * n THEN q
    ELSE LET cand_i == cands[(m \div n) + 1]
             cand_j == cands[(m % n) + 1]
         IN  IF cand_i = cand_k \/ cand_j = cand_i \/ cand_j = cand_k
             THEN RelaxFrom(q, cands, cand_k, m + 1)
             ELSE RelaxFrom(RelaxOne(q, cand_i, cand_k, cand_j),
                            cands, cand_k, m + 1)

\* The loops nested the wrong way round: the outer loop's candidate is the
\* path's start cand_i, the intermediate is the innermost loop.
RECURSIVE RelaxInnermostFrom(_, _, _, _)
RelaxInnermostFrom(q, cands, cand_i, m) ==
    LET n == Len(cands) IN
    IF m >= n * n THEN q
    ELSE LET cand_j == cands[(m \div n) + 1]
             cand_k == cands[(m % n) + 1]
         IN  IF cand_i = cand_k \/ cand_j = cand_i \/ cand_j = cand_k
             THEN RelaxInnermostFrom(q, cands, cand_i, m + 1)
             ELSE RelaxInnermostFrom(
                    [q EXCEPT ![<<cand_i, cand_j>>] =
                        Update(@, PathStrength(q, cand_i, cand_k, cand_j))],
                    cands, cand_i, m + 1)

\* Mutant of ClosurePass: the intermediate candidate is the innermost loop.
ClosurePassInnermost(q, cands, cand_k) == RelaxInnermostFrom(q, cands, cand_k, 0)

\* Mutant of ClosurePass: the cand_i loop starts at the second candidate
\* (candidates[1:]).
ClosurePassSkipFirst(q, cands, cand_k) == RelaxFrom(q, cands, cand_k, Len(cands))

ClosurePass(q, cands, cand_k) == RelaxFrom(q, cands, cand_k, 0)

\* the outer loop, from the kk-th candidate on
RECURSIVE ClosureFrom(_, _, _)
ClosureFrom(q, cands, kk) ==
    IF kk > Len(cands) THEN q
    ELSE ClosureFrom(ClosurePass(q, cands, cands[kk]), cands, kk + 1)

Closure(q, cands) == ClosureFrom(q, cands, 1)

\* scores[cand_i] += 1 for each cand_j with p[i][j] > p[j][i]
SchulzeScores(q, cands) ==
    [c \in Range(cands) |->
        Cardinality({d \in Range(cands) : d # c /\ q[<<c, d>>] > q[<<d, c>>]})]

MaxScore(sc) == CHOOSE m \in Range(sc) : \A x \in Range(sc) : x <= m

\* Mutant of SchulzeWinners: only a candidate that beats every other one wins.
SchulzeWinnersBeatsAll(sc, cands) ==
    LET BeatsAll(c) == sc[c] = Len(cands) - 1
    IN  SelectSeq(cands, BeatsAll)

\* the dict keeps the candidates' order
SchulzeWinners(sc, cands) ==
    LET max_score == MaxScore(sc)
        IsMax(c) == sc[c] = max_score
    IN  SelectSeq(cands, IsMax)

\* A rule's result: what it returned, or the exception it raised.
Returned(w, sc) == [status |-> "ok", winners |-> w, scores |-> sc]
Raised(exc) == [status |-> exc, winners |-> None, scores |-> None]

Schulze(bs, cands) ==
    IF HeadToHeadRaises(bs, cands) THEN Raised("ValueError")
    ELSE LET q == Closure(InitStrength(HeadToHead(bs, cands), cands), cands)
             sc == SchulzeScores(q, cands)
         IN  Returned(SchulzeWinners(sc, cands), sc)

\* ------------------------------------------------------------- the stubs
FindCondorcetWinner(bs, cands) == Raised("NotImplementedError")
Copeland(bs, cands) == Raised("NotImplementedError")
BordaCount(bs, cands) == Raised("NotImplementedError")

RuleResult(system, bs, cands) ==
    CASE system = "copeland" -> Copeland(bs, cands)
      [] system = "borda_count" -> BordaCount(bs, cands)
      [] system = "schulze" -> Schulze(bs, cands)

\* --------------------------------------------------- aggregate_ballot_types
\* Mutant of TypeCountsUpTo: the count is set to 1 and never incremented.
RECURSIVE TypeCountsNoIncrement(_, _)
TypeCountsNoIncrement(bs, n) ==
    IF n = 0 THEN << >>
    ELSE LET type_counts == TypeCountsNoIncrement(bs, n - 1)
         IN  [b \in (DOMAIN type_counts) \cup {bs[n]} |->
                 IF b = bs[n] THEN 1 ELSE type_counts[b]]

\* type_counts[ballot] = type_counts.get(ballot, 0) + 1, over the first n ballots
RECURSIVE TypeCountsUpTo(_, _)
TypeCountsUpTo(bs, n) ==
    IF n = 0 THEN << >>
    ELSE LET type_counts == TypeCountsUpTo(bs, n - 1)
             ballot == bs[n]
             old == IF ballot \in DOMAIN type_counts THEN type_counts[ballot] ELSE 0
         IN  [b \in (DOMAIN type_counts) \cup {ballot} |->
                 IF b = ballot THEN old + 1 ELSE type_counts[b]]

AggregateBallotTypes(bs) == TypeCountsUpTo(bs, Len(bs))

\* --------------------------- simulate_election_with_modified_ballots
\* Mutant of SubstituteUpTo: a ballot of another type is not copied over
\* (no else branch).
RECURSIVE SubstituteDropOthers(_, _, _, _)
SubstituteDropOthers(original_ballots, type, new_ballot, n) ==
    IF n = 0
    THEN [original_ballots |-> original_ballots, modified_ballots |-> << >>]
    ELSE LET before == SubstituteDropOthers(original_ballots, type, new_ballot, n - 1)
         IN  [original_ballots |-> before.original_ballots,
              modified_ballots |->
                 IF original_ballots[n] = type
                 THEN Append(before.modified_ballots, new_ballot)
                 ELSE before.modified_ballots]

\* Mutant of SubstituteUpTo: the new ballot is also written into the
\* caller's list (original_ballots[i] = new_ballot).
RECURSIVE SubstituteInPlace(_, _, _, _)
SubstituteInPlace(original_ballots, type, new_ballot, n) ==
    IF n = 0
    THEN [original_ballots |-> original_ballots, modified_ballots |-> << >>]
    ELSE LET before == SubstituteInPlace(original_ballots, type, new_ballot, n - 1)
             ballot == original_ballots[n]
         IN  IF ballot = type
             THEN [original_ballots |->
                      [before.original_ballots EXCEPT ![n] = new_ballot],
                   modified_ballots |-> Append(before.modified_ballots, new_ballot)]
             ELSE [original_ballots |-> before.original_ballots,
                   modified_ballots |-> Append(before.modified_ballots, ballot)]

\* Mutant of SubstituteUpTo: every ballot is replaced, of the voter type
\* or not (the test ballot == voter_type is missing).
RECURSIVE SubstituteEvery(_, _, _, _)
SubstituteEvery(original_ballots, type, new_ballot, n) ==
    IF n = 0
    THEN [original_ballots |-> original_ballots, modified_ballots |-> << >>]
    ELSE LET before == SubstituteEvery(original_ballots, type, new_ballot, n - 1)
         IN  [original_ballots |-> before.original_ballots,
              modified_ballots |-> Append(before.modified_ballots, new_ballot)]

\* The loop of lines 48-52 over the first n ballots: the two lists it
\* leaves, the caller's and the new one.
RECURSIVE SubstituteUpTo(_, _, _, _)
SubstituteUpTo(original_ballots, type, new_ballot, n) ==
    IF n = 0
    THEN [original_ballots |-> original_ballots, modified_ballots |-> << >>]
    ELSE LET before == SubstituteUpTo(original_ballots, type, new_ballot, n - 1)
             ballot == original_ballots[n]
         IN  [original_ballots |-> before.original_ballots,
              modified_ballots |->
                 IF ballot = type
                 THEN Append(before.modified_ballots, new_ballot)
                 ELSE Append(before.modified_ballots, ballot)]

SubstituteBallots(original_ballots, type, new_ballot) ==
    SubstituteUpTo(original_ballots, type, new_ballot, Len(original_ballots))

\* Mutant of Simulate: the alternative ballot is built before the count of
\* the voter type is looked at.
SimulateEagerBallot(original_ballots, type, ranking, system, cands) ==
    LET type_counts == AggregateBallotTypes(original_ballots)
        num_of_type == IF type \in DOMAIN type_counts THEN type_counts[type] ELSE 0
    IN  IF BallotRaises(ranking)
        THEN [original_ballots |-> original_ballots,
              rule_calls |-> << >>,
              result |-> Raised("ValueError")]
        ELSE IF num_of_type = 0
        THEN [original_ballots |-> original_ballots,
              rule_calls |-> <<original_ballots>>,
              result |-> RuleResult(system, original_ballots, cands)]
        ELSE LET lists == SubstituteBallots(original_ballots, type, Ballot(ranking))
             IN  [original_ballots |-> lists.original_ballots,
                  rule_calls |-> <<lists.modified_ballots>>,
                  result |-> RuleResult(system, lists.modified_ballots, cands)]

\* The whole call: the caller's list afterwards, the lists handed to the
\* rule, and the result.
Simulate(original_ballots, type, ranking, system, cands) ==
    LET type_counts == AggregateBallotTypes(original_ballots)
        num_of_type == IF type \in DOMAIN type_counts THEN type_counts[type] ELSE 0
    IN  IF num_of_type = 0
        THEN [original_ballots |-> original_ballots,
              rule_calls |-> <<original_ballots>>,
              result |-> RuleResult(system, original_ballots, cands)]
        ELSE IF BallotRaises(ranking)
        THEN [original_ballots |-> original_ballots,
              rule_calls |-> << >>,
              result |-> Raised("ValueError")]
        ELSE LET lists == SubstituteBallots(original_ballots, type, Ballot(ranking))
             IN  [original_ballots |-> lists.original_ballots,
                  rule_calls |-> <<lists.modified_ballots>>,
                  result |-> RuleResult(system, lists.modified_ballots, cands)]

\* ------------------------------------------------------- is_better_outcome
\* min() of an empty generator raises ValueError: no winner is in the ranking.
BestPositionRaises(ranking, winner_list) ==
    \A i \in DOMAIN winner_list : winner_list[i] \notin Range(ranking)

\* min(true_ranking.index(w) for w in winner_list if w in true_ranking)
BestPosition(ranking, winner_list) ==
    LET positions == {Index(ranking, winner_list[i]) :
                         i \in {j \in DOMAIN winner_list : winner_list[j] \in Range(ranking)}}
    IN  CHOOSE m \in positions : \A x \in positions : m <= x

\* Mutant of LowerPosition: an equal position counts as better.
LowerOrEqualPosition(new_best_position, original_best_position) ==
    new_best_position <= original_best_position

\* new_best_position < original_best_position
LowerPosition(new_best_position, original_best_position) ==
    new_best_position < original_best_position

IsBetterOutcome(ranking, orig_winners, next_winners) ==
    IF BestPositionRaises(ranking, orig_winners) \/ BestPositionRaises(ranking, next_winners)
    THEN [status |-> "ValueError", value |-> None]
    ELSE [status |-> "ok",
          value |-> LowerPosition(BestPosition(ranking, next_winners),
                                  BestPosition(ranking, orig_winners))]

\* ---------------------------------------------- find_tactical_opportunities
\* Lines 87-95: the honest election is run (its exception propagates), no
\* alternative ranking is appended, and NotImplementedError is raised; the
\* loop of lines 98-114 is never reached.
OpportunitiesAfter(honest_status) ==
    IF honest_status # "ok"
    THEN [status |-> honest_status, value |-> None]
    ELSE [status |-> "NotImplementedError", value |-> None]

FindTacticalOpportunities(type, all_ballots, system, cands) ==
    OpportunitiesAfter(RuleResult(system, all_ballots, cands).status)

\* ------------------------------------------------------------ the drivers
RuleNames == {"find_condorcet_winner", "copeland", "borda_count", "schulze"}

\* methods (experiments.py) and voting_systems (tactical_voting.py): the
\* dicts keep this order
Methods == <<"copeland", "borda_count", "schulze">>

\* the rule calls of run_all_voting_systems, in order
RunAllCalls == <<"find_condorcet_winner">> \o Methods

\* Mutant of Catches: the handler names another exception type.
CatchesValueError(exc) == exc = "ValueError"

\* except NotImplementedError:
Catches(exc) == exc = "NotImplementedError"

\* the keys of aggregate_ballot_types(bs) in the dict's order: each ballot
\* type at its first occurrence
RECURSIVE TypesInOrder(_, _)
TypesInOrder(bs, n) ==
    IF n = 0 THEN << >>
    ELSE LET before == TypesInOrder(bs, n - 1)
         IN  IF bs[n] \in Range(before) THEN before ELSE Append(before, bs[n])

\* ------------------------------------------- simulate_greedy_algorithm
\* A row of the losses matrix is a sequence of N numbers; actions are
\* numbered from 0 as in the source, so action i is entry i + 1.
RowMin(row) == CHOOSE m \in Range(row) : \A x \in Range(row) : m <= x

\* np.where(row == value)[0][0]: 0-based index of the first such entry
FirstWhere(row, value) ==
    (CHOOSE i \in DOMAIN row :
        row[i] = value /\ \A j \in 1..(i - 1) : row[j] # value) - 1

\* Mutant of GreedyAction: the largest cumulative loss is looked up (.max()).
GreedyActionMaxLoss(t, so_far) ==
    IF t = 0 THEN 0
    ELSE LET max_loss == CHOOSE m \in Range(so_far[t]) :
                             \A x \in Range(so_far[t]) : x <= m
         IN  FirstWhere(so_far[t], max_loss)

\* lines 61-67: the action of time step t (0-based); so_far holds the rows
\* 0..t-1 of cumulative_losses
GreedyAction(t, so_far) ==
    IF t = 0 THEN 0
    ELSE FirstWhere(so_far[t], RowMin(so_far[t]))

\* cumulative_losses[t-1] + losses[t]
RowAdd(row_a, row_b) == [i \in DOMAIN row_a |-> row_a[i] + row_b[i]]

\* -------------------------------------- generate_single_peaked_ballots
\* An ideal position is counted in quarters of the distance between two
\* neighbours of the spectrum: position x is the point x / 4. The odd
\* positions lie inside the intervals between the points where two
\* candidates are equally far; the even ones are those points and the
\* candidates' own places.
AbsDiff(a, b) == IF a >= b THEN a - b ELSE b - a

IdealPositions(n) == 0..(4 * (n - 1))

\* Mutant of PeakedDistance: the spectrum is closed to a ring of n places.
PeakedDistanceOnRing(i, ideal_position, n) ==
    Min(AbsDiff(4 * i, ideal_position), 4 * n - AbsDiff(4 * i, ideal_position))

\* distance = abs(i - ideal_position), i the 0-based place on the spectrum
PeakedDistance(i, ideal_position, n) == AbsDiff(4 * i, ideal_position)

\* lines 185-194: the spectrum sorted by distance; list.sort is stable, so
\* equally distant candidates keep the spectrum's order
PeakedRanking(spec, ideal_position) ==
    LET n == Len(spec)
        dist(i) == PeakedDistance(i - 1, ideal_position, n)
        Before(j, i) == dist(j) < dist(i) \/ (dist(j) = dist(i) /\ j < i)
        place(i) == 1 + Cardinality({j \in 1..n : Before(j, i)})
    IN  [r \in 1..n |-> spec[CHOOSE i \in 1..n : place(i) = r]]

\* ================================================================ Spec
\* Position of a candidate name in string order.
NameOrder(c) == CHOOSE i \in DOMAIN CandidateNames : CandidateNames[i] = c

\* r1 <= r2 in the lexicographic order of two rankings of the same candidates
RankingLeq(r1, r2) ==
    \/ r1 = r2
    \/ \E i \in DOMAIN r1 :
          /\ \A j \in 1..(i - 1) : r1[j] = r2[j]
          /\ NameOrder(r1[i]) < NameOrder(r2[i])

NoCall ==
    /\ called = "none" /\ outcome = "none"
    /\ h2h = NoDict /\ p = NoDict /\ k = 0 /\ scores = NoDict /\ winners = << >>

NoSimulation ==
    /\ voter_type = None /\ new_ranking = None /\ voting_system = None
    /\ rule_calls = << >> /\ sim_result = None

NoOtherCall ==
    /\ rule_result = None /\ opportunities = None /\ voter_types = None
    /\ ranking_arg = None /\ built_ballot = None /\ query = None /\ answer = None
    /\ true_ranking = None /\ original_winners = None /\ new_winners = None
    /\ better = None
    /\ spectrum = None
    /\ pending = {} /\ pass_start = NoDict

NoGreedy ==
    /\ N = 0 /\ losses = << >> /\ greedy_actions = << >>
    /\ cumulative_losses = << >> /\ greedy_cumulative = << >>

NoDriver ==
    /\ driver = "none" /\ step = 0 /\ vt = 0 /\ invoked = << >> /\ raising = {}

\* candidates is a prefix of the names; no ballot is cast yet.
Init ==
    /\ candidates \in {SubSeq(CandidateNames, 1, n) : n \in 1..Len(CandidateNames)}
    /\ ballots = << >>
    /\ pc = "collecting"
    /\ NoCall
    /\ NoSimulation
    /\ NoOtherCall
    /\ NoGreedy
    /\ NoDriver

\* ballots.append(Ballot(ranking)) with a full ranking of the candidates.
\* Spec builds one ballot list per multiset of rankings, the sorted one.
CastBallot(ranking) ==
    /\ pc = "collecting"
    /\ Len(ballots) < MaxBallots
    /\ ~BallotRaises(ranking)
    /\ Len(ballots) > 0 => RankingLeq(ballots[Len(ballots)], ranking)
    /\ ballots' = Append(ballots, Ballot(ranking))
    /\ UNCHANGED <<candidates, pc, called, outcome>>
    /\ UNCHANGED schulzeVars
    /\ UNCHANGED simVars
    /\ UNCHANGED <<rule_result, opportunities, voter_types>>
    /\ UNCHANGED <<spectrum, passVars, greedyVars, ballotVars, judgeVars, driverVars>>

\* schulze, lines 165-179: h2h and the direct strengths
SchulzeBegin ==
    /\ pc = "collecting"
    /\ called' = "schulze"
    /\ IF HeadToHeadRaises(ballots, candidates)
       THEN /\ outcome' = "ValueError"
            /\ pc' = "raised"
            /\ UNCHANGED <<h2h, p, k>>
       ELSE /\ h2h' = HeadToHead(ballots, candidates)
            /\ p' = InitStrength(h2h', candidates)
            /\ k' = 1
            /\ pc' = "closure"
            /\ UNCHANGED outcome
    /\ UNCHANGED <<candidates, ballots, scores, winners>>
    /\ UNCHANGED simVars
    /\ UNCHANGED <<rule_result, opportunities, voter_types>>
    /\ UNCHANGED <<spectrum, passVars, greedyVars, ballotVars, judgeVars, driverVars>>

\* schulze, lines 182-194: one iteration of the cand_k loop
SchulzeClosureStep ==
    /\ pc = "closure"
    /\ k <= Len(candidates)
    /\ p' = ClosurePass(p, candidates, candidates[k])
    /\ k' = k + 1
    /\ UNCHANGED <<candidates, ballots, pc, called, outcome, h2h, scores, winners>>
    /\ UNCHANGED simVars
    /\ UNCHANGED <<rule_result, opportunities, voter_types>>
    /\ UNCHANGED <<spectrum, passVars, greedyVars, ballotVars, judgeVars, driverVars>>

\* schulze, lines 196-209: scores, winners, return
SchulzeEnd ==
    /\ pc = "closure"
    /\ k > Len(candidates)
    /\ scores' = SchulzeScores(p, candidates)
    /\ winners' = SchulzeWinners(scores', candidates)
    /\ outcome' = "ok"
    /\ pc' = "returned"
    /\ UNCHANGED <<candidates, ballots, called, h2h, p, k>>
    /\ UNCHANGED simVars
    /\ UNCHANGED <<rule_result, opportunities, voter_types>>
    /\ UNCHANGED <<spectrum, passVars, greedyVars, ballotVars, judgeVars, driverVars>>

\* A call of a rule that raises at once.
CallStub(name, result) ==
    /\ pc = "collecting"
    /\ called' = name
    /\ outcome' = result.status
    /\ pc' = IF result.status = "ok" THEN "returned" ELSE "raised"
    /\ rule_result' = result
    /\ UNCHANGED <<candidates, ballots>>
    /\ UNCHANGED schulzeVars
    /\ UNCHANGED simVars
    /\ UNCHANGED <<opportunities, voter_types>>
    /\ UNCHANGED <<spectrum, passVars, greedyVars, ballotVars, judgeVars, driverVars>>

CallFindCondorcetWinner ==
    CallStub("find_condorcet_winner", FindCondorcetWinner(ballots, candidates))

CallCopeland == CallStub("copeland", Copeland(ballots, candidates))

CallBordaCount == CallStub("borda_count", BordaCount(ballots, candidates))

Next ==
    \/ \E ranking \in Orderings(Range(candidates)) : CastBallot(ranking)
    \/ SchulzeBegin
    \/ SchulzeClosureStep
    \/ SchulzeEnd
    \/ CallFindCondorcetWinner
    \/ CallCopeland
    \/ CallBordaCount

Spec == Init /\ [][Next]_vars

\* ======================================================== SpecTactical
\* the voter types tried: every full ranking, and the tests' fake type
VoterTypes == Orderings(Range(SimCandidates)) \cup {<<"X", "Y", "Z">>}

\* the alternative rankings tried: every full ranking, an empty one, one
\* with a duplicate, and one that leaves a candidate out
NewRankings ==
    Orderings(Range(SimCandidates)) \cup {<< >>, <<"A", "B", "A">>, <<"B", "A">>}

VotingSystems == {"copeland", "borda_count", "schulze"}

InitTactical ==
    /\ candidates = SimCandidates
    /\ ballots = << >>
    /\ pc = "collecting"
    /\ NoCall
    /\ NoSimulation
    /\ NoOtherCall
    /\ NoGreedy
    /\ NoDriver

\* ballots.append(Ballot(ranking)), in any order
SimCastBallot(ranking) ==
    /\ pc = "collecting"
    /\ Len(ballots) < MaxSimBallots
    /\ ~BallotRaises(ranking)
    /\ ballots' = Append(ballots, Ballot(ranking))
    /\ UNCHANGED <<candidates, pc, called, outcome>>
    /\ UNCHANGED schulzeVars
    /\ UNCHANGED simVars
    /\ UNCHANGED <<rule_result, opportunities, voter_types>>
    /\ UNCHANGED <<spectrum, passVars, greedyVars, ballotVars, judgeVars, driverVars>>

\* One call of simulate_election_with_modified_ballots.
SimulateElection(type, ranking, system) ==
    /\ pc = "collecting"
    /\ \E call \in {Simulate(ballots, type, ranking, system, candidates)} :
           /\ ballots' = call.original_ballots
           /\ rule_calls' = call.rule_calls
           /\ sim_result' = call.result
           /\ outcome' = call.result.status
    /\ voter_type' = type
    /\ new_ranking' = ranking
    /\ voting_system' = system
    /\ called' = "simulate_election_with_modified_ballots"
    /\ pc' = "simulated"
    /\ UNCHANGED candidates
    /\ UNCHANGED schulzeVars
    /\ UNCHANGED <<rule_result, opportunities, voter_types>>
    /\ UNCHANGED <<spectrum, passVars, greedyVars, ballotVars, judgeVars, driverVars>>

\* One call of find_tactical_opportunities.
FindOpportunities(type, system) ==
    /\ pc = "collecting"
    /\ opportunities' = FindTacticalOpportunities(type, ballots, system, candidates)
    /\ outcome' = opportunities'.status
    /\ voter_type' = type
    /\ voting_system' = system
    /\ called' = "find_tactical_opportunities"
    /\ pc' = "searched"
    /\ UNCHANGED <<candidates, ballots, new_ranking, rule_calls, sim_result>>
    /\ UNCHANGED schulzeVars
    /\ UNCHANGED <<rule_result, voter_types>>
    /\ UNCHANGED <<spectrum, passVars, greedyVars, ballotVars, judgeVars, driverVars>>

NextTactical ==
    \/ \E ranking \in Orderings(Range(candidates)) : SimCastBallot(ranking)
    \/ \E type \in VoterTypes, ranking \in NewRankings, system \in VotingSystems :
          SimulateElection(type, ranking, system)
    \/ \E type \in VoterTypes, system \in VotingSystems :
          FindOpportunities(type, system)

SpecTactical == InitTactical /\ [][NextTactical]_vars

\* ========================================================= SpecIdentity
\* simulate_election_with_modified_ballots with schulze, the alternative
\* ranking being the voter type's own ranking.
NextIdentity ==
    \/ \E ranking \in Orderings(Range(candidates)) : SimCastBallot(ranking)
    \/ \E type \in Orderings(Range(candidates)) :
           SimulateElection(type, GetRanking(type), "schulze")

SpecIdentity == InitTactical /\ [][NextIdentity]_vars

\* ========================================================= SpecOutcome
\* every list of distinct candidates, in any order
DistinctLists(S) == UNION {Orderings(T) : T \in SUBSET S}

\* the winner lists tried: every non-empty list of distinct candidates, the
\* empty list, and lists naming a candidate the ranking does not hold
WinnerLists ==
    DistinctLists(Range(SimCandidates)) \cup {<<"X">>, <<"X", "A">>}

\* One call of is_better_outcome.
JudgeOutcome(ranking, orig_winners, next_winners) ==
    /\ pc = "collecting"
    /\ true_ranking' = ranking
    /\ original_winners' = orig_winners
    /\ new_winners' = next_winners
    /\ better' = IsBetterOutcome(ranking, orig_winners, next_winners)
    /\ outcome' = better'.status
    /\ called' = "is_better_outcome"
    /\ pc' = "judged"
    /\ UNCHANGED <<candidates, ballots>>
    /\ UNCHANGED schulzeVars
    /\ UNCHANGED simVars
    /\ UNCHANGED <<rule_result, opportunities, voter_types>>
    /\ UNCHANGED <<spectrum, passVars, greedyVars, ballotVars, driverVars>>

NextOutcome ==
    \E ranking \in Orderings(Range(candidates)) :
        \E orig_winners \in WinnerLists, next_winners \in WinnerLists :
            JudgeOutcome(ranking, orig_winners, next_winners)

SpecOutcome == InitTactical /\ [][NextOutcome]_vars

\* ========================================================= SpecDrivers
\* Any of the four rules may still be an unimplemented stub; in the source
\* all but schulze are.
InitDrivers ==
    /\ candidates = SimCandidates
    /\ ballots = << >>
    /\ pc = "collecting"
    /\ NoCall
    /\ NoSimulation
    /\ NoOtherCall
    /\ NoGreedy
    /\ driver = "none" /\ step = 0 /\ vt = 0 /\ invoked = << >>
    /\ raising \in SUBSET RuleNames

\* what a rule called by a driver does
DriverRuleStatus(name) == IF name \in raising THEN "NotImplementedError" ELSE "ok"

DriverCastBallot(ranking) ==
    /\ pc = "collecting"
    /\ Len(ballots) < MaxDriverBallots
    /\ ~BallotRaises(ranking)
    /\ ballots' = Append(ballots, Ballot(ranking))
    /\ UNCHANGED <<candidates, pc, called, outcome>>
    /\ UNCHANGED schulzeVars
    /\ UNCHANGED simVars
    /\ UNCHANGED <<rule_result, opportunities, voter_types>>
    /\ UNCHANGED <<spectrum, passVars, greedyVars, ballotVars, judgeVars, driverVars>>

driverFrame ==
    /\ UNCHANGED <<candidates, ballots, called, outcome, raising>>
    /\ UNCHANGED schulzeVars
    /\ UNCHANGED simVars
    /\ UNCHANGED <<rule_result, opportunities>>
    /\ UNCHANGED <<spectrum, passVars, greedyVars, ballotVars, judgeVars>>

\* run_all_voting_systems is entered
StartRunAll ==
    /\ pc = "collecting"
    /\ driver' = "run_all_voting_systems"
    /\ pc' = "driving"
    /\ step' = 1
    /\ UNCHANGED <<vt, invoked, voter_types>>
    /\ driverFrame

\* run_tactical_voting_experiments is entered: lines 193-206
StartRunTactical ==
    /\ pc = "collecting"
    /\ driver' = "run_tactical_voting_experiments"
    /\ voter_types' = AggregateBallotTypes(ballots)
    /\ pc' = "driving"
    /\ step' = 1
    /\ UNCHANGED <<vt, invoked>>
    /\ driverFrame

\* where a driver goes after the step-th rule of `calls` is dealt with
AfterRule(calls) == IF step = Len(calls) THEN "driver_returned" ELSE "driving"

\* run_all_voting_systems: the next try block, lines 245-252 (with the
\* head-to-head display of lines 255-269 after it) or one iteration of
\* the loop of lines 275-285
RunAllStep ==
    /\ pc = "driving"
    /\ driver = "run_all_voting_systems"
    /\ LET name == RunAllCalls[step]
           exc == DriverRuleStatus(name)
       IN  IF exc = "ok" \/ Catches(exc)
           THEN /\ invoked' = IF step = 1
                               THEN invoked \o <<name, "get_head_to_head_matrix">>
                               ELSE Append(invoked, name)
                /\ step' = step + 1
                /\ pc' = AfterRule(RunAllCalls)
           ELSE /\ invoked' = Append(invoked, name)
                /\ pc' = "aborted"
                /\ UNCHANGED step
    /\ UNCHANGED <<driver, vt, voter_types>>
    /\ driverFrame

\* run_tactical_voting_experiments: the honest election of one system,
\* lines 208-220
TacticalSystemStep ==
    /\ pc = "driving"
    /\ driver = "run_tactical_voting_experiments"
    /\ LET name == Methods[step]
           exc == DriverRuleStatus(name)
       IN  /\ invoked' = Append(invoked, name)
           /\ IF exc = "ok"
              THEN pc' = "types" /\ vt' = 1 /\ UNCHANGED step
              ELSE IF Catches(exc)
              THEN pc' = AfterRule(Methods) /\ step' = step + 1 /\ UNCHANGED vt
              ELSE pc' = "aborted" /\ UNCHANGED <<step, vt>>
    /\ UNCHANGED <<driver, voter_types>>
    /\ driverFrame

\* Mutant of TypeAfterCatch: continue instead of break.
TypeAfterCatchContinue(num_types, current) == current + 1

\* line 250, break: the voter-type loop is left, no later type is visited
TypeAfterCatch(num_types, current) == num_types + 1

\* run_tactical_voting_experiments: one iteration of the voter-type loop,
\* lines 225-250, or its end, lines 252-253
TacticalTypeStep ==
    /\ pc = "types"
    /\ LET types == TypesInOrder(ballots, Len(ballots))
       IN  IF vt > Len(types)
           THEN /\ pc' = AfterRule(Methods)
                /\ step' = step + 1
                /\ UNCHANGED <<vt, invoked>>
           ELSE LET exc == OpportunitiesAfter(DriverRuleStatus(Methods[step])).status
                IN  /\ invoked' = Append(invoked, "find_tactical_opportunities")
                    /\ IF exc = "ok"
                       THEN pc' = "types" /\ vt' = vt + 1 /\ UNCHANGED step
                       ELSE IF Catches(exc)
                       THEN /\ vt' = TypeAfterCatch(Len(types), vt)
                            /\ UNCHANGED <<pc, step>>
                       ELSE pc' = "aborted" /\ UNCHANGED <<step, vt>>
    /\ UNCHANGED <<driver, voter_types>>
    /\ driverFrame

NextDrivers ==
    \/ \E ranking \in Orderings(Range(candidates)) : DriverCastBallot(ranking)
    \/ StartRunAll
    \/ StartRunTactical
    \/ RunAllStep
    \/ TacticalSystemStep
    \/ TacticalTypeStep

SpecDrivers == InitDrivers /\ [][NextDrivers]_vars

\* =========================================================== SpecBallot
\* One Ballot is constructed from a list that need not be a valid ranking,
\* and then asked for its ranking or for a preference.
RankingArgs == UNION {[1..n -> Range(SimCandidates)] : n \in 0..MaxRankingLen}

\* the candidates asked about; X is on no ballot
QueryCandidates == Range(SimCandidates) \cup {"X"}

ballotFrame ==
    /\ UNCHANGED <<candidates, ballots>>
    /\ UNCHANGED schulzeVars
    /\ UNCHANGED simVars
    /\ UNCHANGED <<rule_result, opportunities, voter_types>>
    /\ UNCHANGED <<spectrum, passVars, greedyVars, judgeVars, driverVars>>

\* Ballot(ranking)
Construct(ranking) ==
    /\ pc = "collecting"
    /\ called' = "Ballot"
    /\ ranking_arg' = ranking
    /\ IF BallotRaises(ranking)
       THEN /\ pc' = "rejected"
            /\ outcome' = "ValueError"
            /\ UNCHANGED built_ballot
       ELSE /\ pc' = "constructed"
            /\ outcome' = "ok"
            /\ built_ballot' = Ballot(ranking)
    /\ UNCHANGED <<query, answer>>
    /\ ballotFrame

\* ballot.get_ranking()
CallGetRanking ==
    /\ pc = "constructed"
    /\ pc' = "ranked"
    /\ called' = "get_ranking"
    /\ answer' = [status |-> "ok", value |-> GetRanking(built_ballot)]
    /\ UNCHANGED <<outcome, ranking_arg, built_ballot, query>>
    /\ ballotFrame

\* ballot.prefers(cand_a, cand_b)
CallPrefers(cand_a, cand_b) ==
    /\ pc = "constructed"
    /\ pc' = "answered"
    /\ called' = "prefers"
    /\ query' = <<cand_a, cand_b>>
    /\ answer' = PrefersCall(built_ballot, cand_a, cand_b)
    /\ outcome' = answer'.status
    /\ UNCHANGED <<ranking_arg, built_ballot>>
    /\ ballotFrame

NextBallot ==
    \/ \E ranking \in RankingArgs : Construct(ranking)
    \/ CallGetRanking
    \/ \E cand_a, cand_b \in QueryCandidates : CallPrefers(cand_a, cand_b)

SpecBallot == InitTactical /\ [][NextBallot]_vars

\* ========================================================== SpecClosure
\* schulze alone, on the elections of Spec and on Examples 2 and 4 of
\* run_activity1.
Example2Candidates == <<"A", "B", "C">>

\* ballots_2, the rock-paper-scissors election
Example2Ballots ==
    <<Ballot(<<"A", "B", "C">>), Ballot(<<"A", "B", "C">>),
      Ballot(<<"B", "C", "A">>), Ballot(<<"B", "C", "A">>),
      Ballot(<<"C", "A", "B">>), Ballot(<<"C", "A", "B">>)>>

Example4Candidates == <<"A", "B", "C", "D">>

\* ballots_4, four candidates in a majority cycle
Example4Ballots ==
    <<Ballot(<<"A", "B", "C", "D">>), Ballot(<<"A", "B", "C", "D">>),
      Ballot(<<"A", "B", "C", "D">>),
      Ballot(<<"B", "C", "D", "A">>), Ballot(<<"B", "C", "D", "A">>),
      Ballot(<<"C", "D", "A", "B">>), Ballot(<<"C", "D", "A", "B">>),
      Ballot(<<"D", "A", "B", "C">>)>>

ExampleElections ==
    {[candidates |-> Example2Candidates, ballots |-> Example2Ballots],
     [candidates |-> Example4Candidates, ballots |-> Example4Ballots]}

\* run_activity1 builds the ballots and candidates of an example
LoadExample(election) ==
    /\ pc = "collecting"
    /\ ballots = << >>
    /\ candidates = election.candidates
    /\ ballots' = election.ballots
    /\ UNCHANGED <<candidates, pc, called, outcome>>
    /\ UNCHANGED schulzeVars
    /\ UNCHANGED simVars
    /\ UNCHANGED <<rule_result, opportunities, voter_types>>
    /\ UNCHANGED <<spectrum, passVars, greedyVars, ballotVars, judgeVars, driverVars>>

NextClosure ==
    \/ \E ranking \in Orderings(Range(candidates)) : CastBallot(ranking)
    \/ \E election \in ExampleElections : LoadExample(election)
    \/ SchulzeBegin
    \/ SchulzeClosureStep
    \/ SchulzeEnd

SpecClosure == Init /\ [][NextClosure]_vars

\* ============================================================= SpecPass
\* schulze with the two inner loops of one cand_k taken apart: the
\* (cand_i, cand_j) updates of a pass are done one at a time in any order.
PassCastBallot(ranking) ==
    /\ pc = "collecting"
    /\ Len(ballots) < MaxPassBallots
    /\ ~BallotRaises(ranking)
    /\ Len(ballots) > 0 => RankingLeq(ballots[Len(ballots)], ranking)
    /\ ballots' = Append(ballots, Ballot(ranking))
    /\ UNCHANGED <<candidates, pc, called, outcome>>
    /\ UNCHANGED schulzeVars
    /\ UNCHANGED simVars
    /\ UNCHANGED <<rule_result, opportunities, voter_types>>
    /\ UNCHANGED <<spectrum, passVars, greedyVars, ballotVars, judgeVars, driverVars>>

\* the (cand_i, cand_j) the inner loops do not skip
PassPairs(cands, cand_k) ==
    {pr \in Pairs(cands) : pr[1] # cand_k /\ pr[2] # cand_k}

passFrame ==
    /\ UNCHANGED <<candidates, ballots, called, outcome, h2h, scores, winners>>
    /\ UNCHANGED simVars
    /\ UNCHANGED <<rule_result, opportunities, voter_types>>
    /\ UNCHANGED <<spectrum, greedyVars, ballotVars, judgeVars, driverVars>>

\* the next cand_k is taken
PassBegin ==
    /\ pc = "closure"
    /\ k <= Len(candidates)
    /\ pc' = "pass"
    /\ pending' = PassPairs(candidates, candidates[k])
    /\ pass_start' = p
    /\ UNCHANGED <<p, k>>
    /\ passFrame

\* lines 190-194 for one (cand_i, cand_j)
PassUpdate(cand_i, cand_j) ==
    /\ pc = "pass"
    /\ <<cand_i, cand_j>> \in pending
    /\ p' = RelaxOne(p, cand_i, candidates[k], cand_j)
    /\ pending' = pending \ {<<cand_i, cand_j>>}
    /\ UNCHANGED <<pc, k, pass_start>>
    /\ passFrame

\* the inner loops of cand_k are exhausted
PassEnd ==
    /\ pc = "pass"
    /\ pending = {}
    /\ pc' = "closure"
    /\ k' = k + 1
    /\ UNCHANGED <<p, pending, pass_start>>
    /\ passFrame

NextPass ==
    \/ \E ranking \in Orderings(Range(candidates)) : PassCastBallot(ranking)
    \/ \E election \in ExampleElections : LoadExample(election)
    \/ SchulzeBegin
    \/ PassBegin
    \/ \E cand_i, cand_j \in Range(candidates) : PassUpdate(cand_i, cand_j)
    \/ PassEnd
    \/ SchulzeEnd

SpecPass == Init /\ [][NextPass]_vars

\* =========================================================== SpecGreedy
\* simulate_greedy_algorithm on a losses matrix of N columns with entries
\* 0 or 1; a row is chosen when the loop reads it.
InitGreedy ==
    /\ candidates = SimCandidates
    /\ ballots = << >>
    /\ pc = "greedy"
    /\ NoCall
    /\ NoSimulation
    /\ NoOtherCall
    /\ NoDriver
    /\ N \in 1..MaxActions
    /\ losses = << >> /\ greedy_actions = << >>
    /\ cumulative_losses = << >> /\ greedy_cumulative = << >>

LossRows == [1..N -> {0, 1}]

greedyFrame ==
    /\ UNCHANGED <<candidates, ballots, outcome, N>>
    /\ UNCHANGED schulzeVars
    /\ UNCHANGED simVars
    /\ UNCHANGED <<rule_result, opportunities, voter_types>>
    /\ UNCHANGED <<spectrum, passVars, ballotVars, judgeVars, driverVars>>

\* lines 60-81: the iteration t = Len(losses) of the loop
GreedyStep(row) ==
    /\ pc = "greedy"
    /\ Len(losses) < MaxSteps
    /\ LET t == Len(losses)
           action == GreedyAction(t, cumulative_losses)
       IN  /\ losses' = Append(losses, row)
           /\ greedy_actions' = Append(greedy_actions, action)
           /\ cumulative_losses' =
                 Append(cumulative_losses,
                        IF t = 0 THEN row ELSE RowAdd(cumulative_losses[t], row))
           /\ greedy_cumulative' =
                 Append(greedy_cumulative,
                        IF t = 0 THEN row[action + 1]
                        ELSE greedy_cumulative[t] + row[action + 1])
    /\ UNCHANGED <<pc, called>>
    /\ greedyFrame

\* line 83: the loop has run over all T rows
GreedyReturn ==
    /\ pc = "greedy"
    /\ pc' = "greedy_returned"
    /\ called' = "simulate_greedy_algorithm"
    /\ UNCHANGED <<losses, greedy_actions, cumulative_losses, greedy_cumulative>>
    /\ greedyFrame

NextGreedy ==
    \/ \E row \in LossRows : GreedyStep(row)
    \/ GreedyReturn

SpecGreedy == InitGreedy /\ [][NextGreedy]_vars

\* =========================================================== SpecPeaked
\* One call of generate_single_peaked_ballots: the spectrum argument is
\* None, an ordering of the candidates, or a list of other candidates.
\* num_voters is the number of voters generated when the call returns.
InitPeaked ==
    /\ candidates \in {SubSeq(CandidateNames, 1, n) : n \in 1..Len(CandidateNames)}
    /\ ballots = << >>
    /\ pc = "collecting"
    /\ NoCall
    /\ NoSimulation
    /\ NoOtherCall
    /\ NoGreedy
    /\ NoDriver

\* the lists handed over as spectrum when it is not None
SpectrumArgs == Orderings(Range(candidates)) \cup {<<"A", "X">>}

peakedFrame ==
    /\ UNCHANGED candidates
    /\ UNCHANGED schulzeVars
    /\ UNCHANGED simVars
    /\ UNCHANGED <<rule_result, opportunities, voter_types>>
    /\ UNCHANGED <<passVars, greedyVars, ballotVars, judgeVars, driverVars>>

\* lines 167-177; is_none says that spectrum is None
PeakedBegin(is_none, spectrum_arg) ==
    /\ pc = "collecting"
    /\ called' = "generate_single_peaked_ballots"
    /\ IF is_none
       THEN /\ spectrum' = candidates
            /\ pc' = "generating"
            /\ UNCHANGED outcome
       ELSE IF Range(spectrum_arg) # Range(candidates)
       THEN /\ outcome' = "ValueError"
            /\ pc' = "raised"
            /\ UNCHANGED spectrum
       ELSE /\ spectrum' = spectrum_arg
            /\ pc' = "generating"
            /\ UNCHANGED outcome
    /\ UNCHANGED ballots
    /\ peakedFrame

\* lines 178-195: one voter
PeakedVoter(ideal_position) ==
    /\ pc = "generating"
    /\ Len(ballots) < MaxPeakedVoters
    /\ ballots' = Append(ballots, Ballot(PeakedRanking(spectrum, ideal_position)))
    /\ UNCHANGED <<pc, called, outcome, spectrum>>
    /\ peakedFrame

\* line 197
PeakedReturn ==
    /\ pc = "generating"
    /\ pc' = "generated"
    /\ outcome' = "ok"
    /\ UNCHANGED <<ballots, called, spectrum>>
    /\ peakedFrame

NextPeaked ==
    \/ PeakedBegin(TRUE, << >>)
    \/ \E spectrum_arg \in SpectrumArgs : PeakedBegin(FALSE, spectrum_arg)
    \/ \E ideal_position \in IdealPositions(Len(candidates)) : PeakedVoter(ideal_position)
    \/ PeakedReturn

SpecPeaked == InitPeaked /\ [][NextPeaked]_vars

\* ================================================= properties of Spec
Cands == Range(candidates)

SchulzeReturned == pc = "returned" /\ called = "schulze"

\* the cand_k loop of schulze has ended
ClosureDone == called = "schulze" /\ pc \in {"closure", "returned"} /\ k > Len(candidates)

\* c wins every head-to-head matchup
IsCondorcetWinner(c) ==
    \A d \in Cands \ {c} : h2h[<<c, d>>] > h2h[<<d, c>>]

\* the margin of the hop (x, y)
Margin(x, y) == IF h2h[<<x, y>>] > h2h[<<y, x>>] THEN h2h[<<x, y>>] ELSE 0

SetMax(S) == CHOOSE m \in S : \A x \in S : x <= m

\* The strength of the strongest path from a to b that visits no candidate
\* of `seen` (a is in seen) and no candidate twice.
RECURSIVE StrongestPath(_, _, _)
StrongestPath(a, b, seen) ==
    SetMax({Margin(a, b)} \cup
           {Min(Margin(a, c), StrongestPath(c, b, seen \cup {c})) :
                c \in Cands \ (seen \cup {b})})

\* the strongest path from a to b of at most two hops
StrongestShortPath(a, b) ==
    SetMax({Margin(a, b)} \cup
           {Min(Margin(a, c), Margin(c, b)) : c \in Cands \ {a, b}})

\* C1: when schulze has returned and some candidate c wins every
\* head-to-head matchup, the winner list is exactly [c].
C1_CondorcetConsistent ==
    SchulzeReturned =>
        \A c \in Cands : IsCondorcetWinner(c) => winners = <<c>>

\* C1 witness: schulze returned [c] for a Condorcet winner c that some
\* ballot does not rank first, among at least three candidates.
C1_Witness ==
    /\ SchulzeReturned
    /\ Len(candidates) >= 3
    /\ \E c \in Cands :
          /\ IsCondorcetWinner(c)
          /\ \E i \in DOMAIN ballots : ballots[i][1] # c
          /\ winners = <<c>>

\* C2: after the closure loops, p(A,B) is the maximum over the paths from
\* A to B through distinct candidates of the minimum hop margin.
C2_StrongestPaths ==
    ClosureDone =>
        \A pr \in Pairs(candidates) : p[pr] = StrongestPath(pr[1], pr[2], {pr[1]})

\* C2 witness: the closure has ended and some p(A,B) is the strength of a
\* path of three hops, stronger than every path of one or two hops.
C2_Witness ==
    /\ ClosureDone
    /\ \E pr \in Pairs(candidates) : p[pr] > StrongestShortPath(pr[1], pr[2])

\* C3: in the matrix get_head_to_head_matrix returned for full-permutation
\* ballots, count(A,B) + count(B,A) is the number of ballots for every pair
\* of distinct candidates.
C3_PairTotals ==
    (called = "schulze" /\ pc \in {"closure", "returned"}) =>
        \A pr \in Pairs(candidates) :
            h2h[pr] + h2h[<<pr[2], pr[1]>>] = Len(ballots)

\* C3 witness: a matrix of at least two ballots in which some pair is split.
C3_Witness ==
    /\ called = "schulze" /\ pc \in {"closure", "returned"}
    /\ Len(ballots) >= 2
    /\ \E pr \in Pairs(candidates) : h2h[pr] > 0 /\ h2h[<<pr[2], pr[1]>>] > 0

\* a majority cycle a > b > c > a in the head-to-head matrix
HasMajorityCycle ==
    \E a, b, c \in Cands :
        /\ a # b /\ b # c /\ a # c
        /\ h2h[<<a, b>>] > h2h[<<b, a>>]
        /\ h2h[<<b, c>>] > h2h[<<c, b>>]
        /\ h2h[<<c, a>>] > h2h[<<a, c>>]

\* C4: the result schulze returns has a non-empty winner list drawn from
\* the candidates and one score per candidate.
C4_WinnersNonEmpty ==
    SchulzeReturned =>
        /\ Len(winners) >= 1
        /\ Range(winners) \subseteq Cands
        /\ DOMAIN scores = Cands

\* C4 witness: schulze returned for an election with a majority cycle.
C4_Witness == SchulzeReturned /\ HasMajorityCycle /\ Len(winners) >= 1

\* b beatpath-defeats a
Defeats(b, a) == p[<<b, a>>] > p[<<a, b>>]

Undefeated(a) == ~ \E b \in Cands \ {a} : Defeats(b, a)

\* C5: the winner list is exactly the set of undefeated candidates.
C5_WinnersAreUndefeated ==
    SchulzeReturned =>
        \A a \in Cands : (a \in Range(winners)) <=> Undefeated(a)

\* C6: whatever the order of the candidate list, and so of the candidates
\* K visited, schulze computes the same strengths, scores and winner set.
C6_OrderIndependent ==
    SchulzeReturned =>
        \A perm \in Orderings(Cands) :
            LET q == Closure(InitStrength(h2h, perm), perm)
                sc == SchulzeScores(q, perm)
            IN  /\ q = p
                /\ sc = scores
                /\ Range(SchulzeWinners(sc, perm)) = Range(winners)

\* C6 witness: schulze returned for at least three candidates and the
\* closure raised some strength above the direct one.
C6_Witness ==
    /\ SchulzeReturned
    /\ Len(candidates) >= 3
    /\ \E pr \in Pairs(candidates) : p[pr] > Margin(pr[1], pr[2])

\* C7: on valid ballots and a complete candidate list every rule returns a
\* result; none raises.
C7_NoRuleFails ==
    pc \in {"returned", "raised"} => outcome = "ok"

\* ========================================= properties of SpecTactical
Simulated == pc = "simulated"

TypePresent == \E i \in DOMAIN ballots : ballots[i] = voter_type

\* two results of a rule are the same return value or the same exception
SameResult(r1, r2) ==
    /\ r1.status = r2.status
    /\ r1.status = "ok" => (r1.winners = r2.winners /\ r1.scores = r2.scores)

\* C8: with a voter type that equals no ballot of the collection, the
\* simulation returns the rule's result on the original ballots, whatever
\* the alternative ranking.
C8_AbsentTypeHonestResult ==
    (Simulated /\ ~TypePresent) =>
        SameResult(sim_result, RuleResult(voting_system, ballots, candidates))

\* C8 witness: schulze was simulated for an absent voter type with an
\* alternative ranking no Ballot can be built from, and returned winners.
C8_Witness ==
    /\ Simulated /\ ~TypePresent
    /\ Len(ballots) >= 2
    /\ voting_system = "schulze"
    /\ BallotRaises(new_ranking)
    /\ sim_result.status = "ok"

\* C9: when the voter type occurs, the list handed to the rule is as long
\* as the original, holds the alternative ballot wherever the original
\* holds the voter type and the original ballot everywhere else.
C9_SubstitutedList ==
    (Simulated /\ TypePresent) =>
        \A c \in DOMAIN rule_calls :
            /\ Len(rule_calls[c]) = Len(ballots)
            /\ \A i \in DOMAIN ballots :
                  rule_calls[c][i] =
                      IF ballots[i] = voter_type THEN new_ranking ELSE ballots[i]

\* C9 witness: a list was handed to the rule in which some ballots were
\* replaced by a different ranking and some were kept.
C9_Witness ==
    /\ Simulated /\ TypePresent
    /\ Len(rule_calls) = 1
    /\ new_ranking # voter_type
    /\ \E i, j \in DOMAIN ballots :
          /\ ballots[i] = voter_type /\ rule_calls[1][i] = new_ranking
          /\ ballots[j] # voter_type /\ rule_calls[1][j] = ballots[j]

\* C10: a call of simulate_election_with_modified_ballots leaves the
\* caller's ballot collection as it was, on every path.
C10_OriginalUnchanged ==
    [][pc' = "simulated" => ballots' = ballots]_vars

\* C10 witness: a simulation that substituted a different ranking for a
\* voter type present in the collection has returned.
C10_Witness ==
    /\ Simulated /\ TypePresent
    /\ Len(rule_calls) = 1
    /\ rule_calls[1] # ballots

\* C12: called with a voter type, the ballot collection, a working rule and
\* the candidates, find_tactical_opportunities returns a list of
\* opportunity records, empty when no alternative ranking is supplied.
C12_ReturnsOpportunityList ==
    (/\ pc = "searched"
     /\ RuleResult(voting_system, ballots, candidates).status = "ok") =>
        /\ opportunities.status = "ok"
        /\ opportunities.value = << >>

\* ========================================== properties of SpecOutcome
Judged == pc = "judged"

\* a non-empty winner list drawn from the ranking
DrawnFrom(ranking, winner_list) ==
    Len(winner_list) >= 1 /\ Range(winner_list) \subseteq Range(ranking)

\* the first position of the ranking that holds a winner
FirstWinnerPosition(ranking, winner_list) ==
    CHOOSE i \in DOMAIN ranking :
        /\ ranking[i] \in Range(winner_list)
        /\ \A j \in 1..(i - 1) : ranking[j] \notin Range(winner_list)

\* C11: for non-empty winner lists drawn from the ranking, is_better_outcome
\* returns true exactly when the best-placed new winner stands strictly
\* earlier in the true ranking than the best-placed original winner.
C11_BetterIffEarlierBest ==
    (/\ Judged
     /\ DrawnFrom(true_ranking, original_winners)
     /\ DrawnFrom(true_ranking, new_winners)) =>
        /\ better.status = "ok"
        /\ better.value <=>
              (FirstWinnerPosition(true_ranking, new_winners)
                  < FirstWinnerPosition(true_ranking, original_winners))

\* C11 witness: two different multi-winner lists whose best-placed winners
\* share a position were judged not better.
C11_Witness ==
    /\ Judged
    /\ Len(original_winners) >= 2 /\ Len(new_winners) >= 2
    /\ DrawnFrom(true_ranking, original_winners)
    /\ DrawnFrom(true_ranking, new_winners)
    /\ Range(original_winners) # Range(new_winners)
    /\ FirstWinnerPosition(true_ranking, new_winners)
          = FirstWinnerPosition(true_ranking, original_winners)
    /\ better.value = FALSE

\* ========================================== properties of SpecDrivers
InRuleNames(f) == f \in RuleNames

\* the rules a driver has invoked, in order
RulesInvoked == SelectSeq(invoked, InRuleNames)

\* C13: whichever rules raise NotImplementedError, neither driver is
\* aborted, and when it returns it has invoked every rule of its fixed
\* order (Copeland, Borda, Schulze; after the Condorcet check in
\* run_all_voting_systems).
C13_UnimplementedNeverAborts ==
    /\ pc # "aborted"
    /\ pc = "driver_returned" =>
          RulesInvoked = IF driver = "run_all_voting_systems"
                         THEN RunAllCalls ELSE Methods

\* C13 witness: run_tactical_voting_experiments returned on a non-empty
\* election with the rules the source leaves unimplemented raising.
C13_Witness ==
    /\ pc = "driver_returned"
    /\ driver = "run_tactical_voting_experiments"
    /\ Len(ballots) >= 1
    /\ raising = {"find_condorcet_winner", "copeland", "borda_count"}
    /\ RulesInvoked = Methods

\* =========================================== properties of SpecBallot
NoRepeat(ranking) ==
    \A i, j \in DOMAIN ranking : i # j => ranking[i] # ranking[j]

\* C14: constructing a Ballot succeeds exactly when the ranking is
\* non-empty and repeats no candidate, and raises otherwise; get_ranking
\* of a constructed ballot returns the ranking it was built from.
C14_ConstructsIffValidRanking ==
    /\ pc = "rejected" =>
          /\ outcome = "ValueError"
          /\ ~(Len(ranking_arg) > 0 /\ NoRepeat(ranking_arg))
    /\ pc \in {"constructed", "ranked", "answered"} =>
          Len(ranking_arg) > 0 /\ NoRepeat(ranking_arg)
    /\ pc = "ranked" => answer.status = "ok" /\ answer.value = ranking_arg

\* C14 witness: get_ranking has answered on a ballot of three candidates.
C14_Witness ==
    /\ pc = "ranked"
    /\ ranking_arg = <<"B", "C", "A">>
    /\ answer.value = <<"B", "C", "A">>

\* a stands strictly before b in the ranking
StrictlyEarlier(ranking, a, b) ==
    \E i, j \in DOMAIN ranking : i < j /\ ranking[i] = a /\ ranking[j] = b

\* C15: prefers(a, b) with both candidates on the ballot returns true
\* exactly when a stands strictly earlier than b (so prefers(a, a) is
\* false); with either candidate absent it raises.
C15_PrefersIffStrictlyEarlier ==
    pc = "answered" =>
        IF query[1] \in Range(ranking_arg) /\ query[2] \in Range(ranking_arg)
        THEN /\ answer.status = "ok"
             /\ answer.value = StrictlyEarlier(ranking_arg, query[1], query[2])
        ELSE answer.status = "ValueError"

\* C15 witness: a ballot was asked whether it prefers a candidate to
\* itself, and said no.
C15_Witness ==
    /\ pc = "answered"
    /\ query = <<"A", "A">>
    /\ answer.status = "ok"
    /\ answer.value = FALSE

\* ------------------------------------ aggregate_ballot_types (SpecDrivers)
\* the sum of the values of a dict
RECURSIVE SumOver(_, _)
SumOver(counts, keys) ==
    IF keys = {} THEN 0
    ELSE LET key == CHOOSE x \in keys : TRUE
         IN  counts[key] + SumOver(counts, keys \ {key})

Aggregated == driver = "run_tactical_voting_experiments"

\* C16: the keys of aggregate_ballot_types(ballots) are the distinct
\* rankings among the ballots, each count is the number of ballots equal
\* to its key, and the counts sum to the number of ballots.
C16_CountsPerDistinctRanking ==
    Aggregated =>
        /\ DOMAIN voter_types = Range(ballots)
        /\ \A b \in DOMAIN voter_types :
              voter_types[b] = Cardinality({i \in DOMAIN ballots : ballots[i] = b})
        /\ SumOver(voter_types, DOMAIN voter_types) = Len(ballots)

\* C16 witness: three ballots of two rankings were aggregated, the
\* repeated ranking not in adjacent places.
C16_Witness ==
    /\ Aggregated
    /\ Len(ballots) = 3
    /\ ballots[1] = ballots[3]
    /\ ballots[1] # ballots[2]
    /\ voter_types[ballots[1]] = 2
    /\ voter_types[ballots[2]] = 1

\* ================================ properties of Spec: the other rules
RuleCalled(name) == called = name /\ pc \in {"returned", "raised"}

\* the candidates that win every matchup of the election's head-to-head matrix
CondorcetWinners ==
    LET counts == HeadToHead(ballots, candidates)
    IN  {c \in Cands : \A d \in Cands \ {c} : counts[<<c, d>>] > counts[<<d, c>>]}

\* C18: find_condorcet_winner returns the candidate that wins every
\* head-to-head matchup, and None when there is no such candidate.
C18_ReturnsCondorcetWinner ==
    RuleCalled("find_condorcet_winner") =>
        /\ outcome = "ok"
        /\ IF CondorcetWinners = {}
           THEN rule_result.winners = None
           ELSE rule_result.winners \in CondorcetWinners

\* C19: the Copeland scores of an election with n candidates sum to
\* n(n-1)/2 (stated on both sides doubled, a tie giving half a point).
C19_CopelandScoresSum ==
    RuleCalled("copeland") =>
        /\ outcome = "ok"
        /\ 2 * SumOver(rule_result.scores, Cands)
              = Len(candidates) * (Len(candidates) - 1)

\* the Borda points of candidate c on the first m ballots
RECURSIVE BordaPoints(_, _)
BordaPoints(c, m) ==
    IF m = 0 THEN 0
    ELSE BordaPoints(c, m - 1) + (Len(candidates) - 1 - Index(ballots[m], c))

\* C20: borda_count gives each candidate the sum over the ballots of
\* n-1-i, i its 0-indexed position, the winners are the candidates with
\* the largest total, and the scores of one ballot sum to n(n-1)/2.
C20_BordaScoresAndWinners ==
    RuleCalled("borda_count") =>
        /\ outcome = "ok"
        /\ \A c \in Cands : rule_result.scores[c] = BordaPoints(c, Len(ballots))
        /\ Range(rule_result.winners) =
              {c \in Cands : \A d \in Cands :
                  BordaPoints(d, Len(ballots)) <= BordaPoints(c, Len(ballots))}
        /\ Len(ballots) = 1 =>
              2 * SumOver(rule_result.scores, Cands)
                  = Len(candidates) * (Len(candidates) - 1)

\* ========================================== properties of SpecClosure
IsExample2 == candidates = Example2Candidates /\ ballots = Example2Ballots

\* C21: on the rock-paper-scissors election schulze ends its closure with
\* the same beatpath strength for all six ordered pairs and returns all
\* three candidates as winners.
C21_Example2AllWin ==
    /\ (IsExample2 /\ ClosureDone) =>
          \A pr, qr \in Pairs(candidates) : p[pr] = p[qr]
    /\ (IsExample2 /\ SchulzeReturned) =>
          Len(winners) = 3 /\ Range(winners) = {"A", "B", "C"}

\* C21 witness: schulze returned on Example 2; the pair (B, A), a direct
\* defeat of B, has the strength 4 of the path B, C, A.
C21_Witness ==
    /\ IsExample2
    /\ SchulzeReturned
    /\ h2h[<<"B", "A">>] = 2
    /\ p[<<"B", "A">>] = 4
    /\ winners = <<"A", "B", "C">>

\* no two-link path through an intermediate is stronger than the entry
ClosedUnderPaths(q) ==
    \A a, b, c \in Cands :
        (a # b /\ a # c /\ b # c) =>
            q[<<a, b>>] >= Min(q[<<a, c>>], q[<<c, b>>])

\* C22: when the triple loop of schulze has ended, p(A,B) >=
\* min(p(A,K), p(K,B)) for all pairwise distinct A, B, K, and running the
\* triple loop once more on p changes no entry.
C22_SinglePassFixedPoint ==
    ClosureDone =>
        /\ ClosedUnderPaths(p)
        /\ Closure(p, candidates) = p

\* C22 witness: the loop has ended on four candidates, it raised some
\* entry above its direct strength, and the direct strengths alone were
\* not closed under paths.
C22_Witness ==
    /\ ClosureDone
    /\ Len(candidates) = 4
    /\ p # InitStrength(h2h, candidates)
    /\ ~ClosedUnderPaths(InitStrength(h2h, candidates))

\* a beatpath-defeats b in the matrix q
BeatpathDefeats(q, a, b) == q[<<a, b>>] > q[<<b, a>>]

\* C27: after the closure the beatpath-defeat relation of schulze is a
\* strict partial order on the candidates: asymmetric and transitive.
C27_DefeatIsStrictOrder ==
    ClosureDone =>
        /\ \A a, b \in Cands :
              a # b => ~(BeatpathDefeats(p, a, b) /\ BeatpathDefeats(p, b, a))
        /\ \A a, b, c \in Cands :
              (a # b /\ b # c /\ a # c
               /\ BeatpathDefeats(p, a, b) /\ BeatpathDefeats(p, b, c))
                  => BeatpathDefeats(p, a, c)

\* C27 witness (Example 4): a defeats b and b defeats c after the closure
\* although c wins the direct matchup against a; a defeats c all the same.
C27_Witness ==
    /\ ClosureDone
    /\ \E a, b, c \in Cands :
          /\ a # b /\ b # c /\ a # c
          /\ BeatpathDefeats(p, a, b) /\ BeatpathDefeats(p, b, c)
          /\ h2h[<<c, a>>] > h2h[<<a, c>>]
          /\ BeatpathDefeats(p, a, c)

\* ============================================= properties of SpecPass
\* an update of the pass for cand_k is done in this step
UpdateStep == pc = "pass" /\ pending' # pending

\* C23: within the pass for one cand_k no entry p(A,K) or p(K,B), the
\* entries the updates read, is written, and whatever order the updates
\* are done in, the pass ends with the matrix the sequential loops give.
C23_PassOrderIrrelevant ==
    [][UpdateStep =>
          /\ \A pr \in Pairs(candidates) :
                (pr[1] = candidates[k] \/ pr[2] = candidates[k]) => p'[pr] = p[pr]
          /\ pending' = {} => p' = ClosurePass(pass_start, candidates, candidates[k])
      ]_vars

\* C23 witness: a pass on four candidates has ended whose updates were
\* not all without effect.
C23_Witness ==
    /\ pc = "pass"
    /\ pending = {}
    /\ Len(candidates) = 4
    /\ Cardinality({pr \in Pairs(candidates) : p[pr] # pass_start[pr]}) >= 2

\* the strengths an entry of p may take: 0 or a winning count of h2h
WinningCounts ==
    {0} \cup {h2h[pr] : pr \in {qr \in Pairs(candidates) : h2h[qr] > h2h[<<qr[2], qr[1]>>]}}

\* schulze holds a matrix p before and after the step
InClosure(at) == at \in {"closure", "pass", "returned"}

\* C28: in every step of schulze from the initialisation of p on, each
\* entry p(A,B) is 0 or count(X,Y) of a pair with count(X,Y) > count(Y,X),
\* so 0 <= p(A,B) <= number of ballots, and no entry decreases.
C28_StrengthsGrowWithinCounts ==
    [][(called' = "schulze" /\ InClosure(pc')) =>
          /\ \A pr \in Pairs(candidates) :
                /\ p'[pr] \in WinningCounts'
                /\ p'[pr] >= 0
                /\ p'[pr] <= Len(ballots')
          /\ InClosure(pc) => \A pr \in Pairs(candidates) : p'[pr] >= p[pr]
      ]_vars

\* C28 witness (Example 4): an update has raised p(D, B) from 0 to 5,
\* the count of D over A.
C28_Witness ==
    /\ pc = "pass"
    /\ ballots = Example4Ballots
    /\ h2h[<<"D", "A">>] = 5
    /\ pass_start[<<"D", "B">>] = 0
    /\ p[<<"D", "B">>] = 5

\* ================================= properties of SpecDrivers: break
IsOpportunityCall(f) == f = "find_tactical_opportunities"

OpportunityCalls == Len(SelectSeq(invoked, IsOpportunityCall))

TacticalReturned ==
    pc = "driver_returned" /\ driver = "run_tactical_voting_experiments"

WorkingMethods == {i \in DOMAIN Methods : Methods[i] \notin raising}

NumVoterTypes == Cardinality(DOMAIN voter_types)

\* C24 as claimed: after find_tactical_opportunities has raised for one
\* voter type of a working rule, the remaining voter types of that rule
\* are evaluated too, so it is called once per voter type and working rule.
C24_RemainingTypesEvaluated ==
    TacticalReturned =>
        OpportunityCalls = Cardinality(WorkingMethods) * NumVoterTypes

\* the calls run_tactical_voting_experiments makes from the m-th rule on
RECURSIVE TacticalCallsFrom(_)
TacticalCallsFrom(m) ==
    IF m > Len(Methods) THEN << >>
    ELSE <<Methods[m]>>
         \o (IF m \in WorkingMethods /\ NumVoterTypes >= 1
             THEN <<"find_tactical_opportunities">> ELSE << >>)
         \o TacticalCallsFrom(m + 1)

\* C24 amended: after find_tactical_opportunities has raised for the first
\* voter type of a working rule, the remaining voter types of that rule
\* are skipped and the analysis goes on with the next rule.
C24_RemainingTypesSkipped ==
    TacticalReturned => invoked = TacticalCallsFrom(1)

\* C24 witness: the driver returned on an election of three voter types
\* with schulze working, having asked for opportunities once.
C24_Witness ==
    /\ TacticalReturned
    /\ NumVoterTypes = 3
    /\ "schulze" \notin raising
    /\ OpportunityCalls = Cardinality(WorkingMethods)
    /\ OpportunityCalls >= 1

\* =========================================== properties of SpecGreedy
\* the loss of action i (0-based) summed over the rows 1..t
RECURSIVE ActionLoss(_, _)
ActionLoss(i, t) ==
    IF t = 0 THEN 0 ELSE ActionLoss(i, t - 1) + losses[t][i + 1]

\* the loss of the actions greedy played, summed over the rows 1..t
RECURSIVE GreedyLoss(_)
GreedyLoss(t) ==
    IF t = 0 THEN 0 ELSE GreedyLoss(t - 1) + losses[t][greedy_actions[t] + 1]

Actions == 0..(N - 1)

\* a has the least loss through row t, and no action before it has
LowestIndexedBest(a, t) ==
    /\ \A i \in Actions : ActionLoss(a, t) <= ActionLoss(i, t)
    /\ \A i \in 0..(a - 1) : ActionLoss(i, t) > ActionLoss(a, t)

\* C25: at every time step the arrays of simulate_greedy_algorithm hold the
\* cumulative losses, greedy's cumulative loss is at most N times the
\* smallest cumulative loss of a single action plus N - 1, and greedy
\* plays action 0 first and then the lowest-indexed action of least
\* cumulative loss through the step before.
C25_GreedyWithinBound ==
    \A t \in 1..Len(losses) :
        /\ \A i \in Actions : cumulative_losses[t][i + 1] = ActionLoss(i, t)
        /\ greedy_cumulative[t] = GreedyLoss(t)
        /\ \A i \in Actions :
              greedy_cumulative[t] <= N * cumulative_losses[t][i + 1] + (N - 1)
        /\ IF t = 1 THEN greedy_actions[t] = 0
           ELSE LowestIndexedBest(greedy_actions[t], t - 1)

\* C25 witness: two actions, three rows, and the bound is met with
\* equality: greedy has lost 3, the best action 1.
C25_Witness ==
    /\ pc = "greedy_returned"
    /\ N = 2
    /\ Len(losses) = 3
    /\ greedy_cumulative[3] = 3
    /\ RowMin(cumulative_losses[3]) = 1

\* =========================================== properties of SpecPeaked
Generated == pc = "generated" /\ Len(ballots) >= 1

C29_OwnRankingChangesNothing ==
    (Simulated /\ TypePresent /\ new_ranking = voter_type
     /\ voting_system = "schulze") =>
        /\ sim_result.status = "ok"
        /\ sim_result.winners = Schulze(ballots, candidates).winners
        /\ sim_result.scores = Schulze(ballots, candidates).scores

\* C29 witness: the voter type A > B > C, one of three ballot types cast,
\* was replaced by itself and B alone won as before.
C29_Witness ==
    /\ Simulated /\ TypePresent
    /\ voting_system = "schulze"
    /\ new_ranking = voter_type
    /\ voter_type = <<"A", "B", "C">>
    /\ Cardinality(Range(ballots)) = 3
    /\ sim_result.winners = <<"B">>


\* ============================ order properties of is_better_outcome
\* the non-empty winner lists drawn from the ranking
ValidWinnerLists(ranking) ==
    {winner_list \in WinnerLists : DrawnFrom(ranking, winner_list)}

\* is_better_outcome(ranking, w1, w2) returned True
JudgedBetter(ranking, w1, w2) ==
    LET judgement == IsBetterOutcome(ranking, w1, w2)
    IN  judgement.status = "ok" /\ judgement.value = TRUE

\* C30: for a fixed true ranking and non-empty winner lists drawn from it,
\* is_better_outcome is a strict order: a list is never better than itself,
\* two lists are never each better than the other, and when the new winners
\* are better than the original ones, every list better than the new winners
\* is better than the original ones too.
C30_BetterIsStrictOrder ==
    (/\ Judged
     /\ DrawnFrom(true_ranking, original_winners)
     /\ DrawnFrom(true_ranking, new_winners)) =>
        /\ better.status = "ok"
        /\ (original_winners = new_winners) => (better.value = FALSE)
        /\ ~(/\ better.value = TRUE
             /\ JudgedBetter(true_ranking, new_winners, original_winners))
        /\ (better.value = TRUE) =>
              \A third_winners \in ValidWinnerLists(true_ranking) :
                  JudgedBetter(true_ranking, new_winners, third_winners) =>
                      JudgedBetter(true_ranking, original_winners, third_winners)

\* C30 witness: a multi-winner new list was judged better than the original
\* winners, and a third list is better than the new winners, so the
\* chain of three is a real one; the reverse judgement is false.
C30_Witness ==
    /\ Judged
    /\ DrawnFrom(true_ranking, original_winners)
    /\ DrawnFrom(true_ranking, new_winners)
    /\ Len(new_winners) >= 2
    /\ better.status = "ok" /\ better.value = TRUE
    /\ ~JudgedBetter(true_ranking, new_winners, original_winners)
    /\ \E third_winners \in ValidWinnerLists(true_ranking) :
          /\ JudgedBetter(true_ranking, new_winners, third_winners)
          /\ JudgedBetter(true_ranking, original_winners, third_winners)

====
